---------------------------- MODULE Spec2Model ----------------------------
(***************************************************************************)
(* NutriMeal Navigator (src/app.py): the recipe filter, filter_recipes,    *)
(* and the Streamlit script main() that loads the recipe table, reads the  *)
(* sidebar widgets and renders the filtered table and its three charts.    *)
(*                                                                         *)
(* Conventions of the model                                                *)
(*  - a DataFrame is a sequence of rows; each row carries the index label  *)
(*    pandas gives it at load (RangeIndex) and keeps through boolean       *)
(*    indexing, so a row of a result can be traced to the row of the table *)
(*    it came from;                                                        *)
(*  - a Python str is a sequence of one-character strings; a str-or-None   *)
(*    value is a record [isna, s];                                         *)
(*  - a range argument is a sequence: <<>> for None (falsy), <<lo, hi>>    *)
(*    for a tuple;                                                         *)
(*  - ratings are counted in thousandths (4125 is 4.125), calories in      *)
(*    kcal; every rating used is exactly representable in binary, so       *)
(*    float rounding is the decimal rounding modelled here;                *)
(*  - the meal_type column is of object dtype: its cells are str values or *)
(*    missing ones;                                                        *)
(*  - the meal types requested are strings of letters, as the selectbox    *)
(*    gives them, so the regular-expression search of str.contains is a    *)
(*    search for the string itself.                                        *)
(***************************************************************************)
EXTENDS Integers, Sequences, FiniteSets

VARIABLES
    csv,         \* the file NewPeanut.csv on disk: whether it exists, and its rows
    cache,       \* what st.cache_data holds for load_data()
    df,          \* the table filter_recipes is given (main's df)
    criteria,    \* the arguments of the last direct call of filter_recipes
    result,      \* what the last call of filter_recipes did (main's filtered_df)
    again,       \* what filter_recipes did on its own result
    recipe_df,   \* the table handed to st.dataframe
    rendered,    \* the elements the last script run put on the page
    calls,       \* the calls of filter_recipes and plot_* in the last script run
    pc           \* where the session (or the harness) stands

vars == <<csv, cache, df, criteria, result, again, recipe_df, rendered, calls, pc>>

---------------------------------------------------------------------------
(* Bounds of the model *)

\* the longest recipe table
MaxRows == 2
\* the most dietary restrictions selected at once
MaxSelected == 2

---------------------------------------------------------------------------
(* Python values *)

\* a str value, and None / NaN in its place
Str(s) == [isna |-> FALSE, s |-> s]
None == [isna |-> TRUE, s |-> <<>>]

UpperCase == <<"A","B","C","D","E","F","G","H","I","J","K","L","M",
               "N","O","P","Q","R","S","T","U","V","W","X","Y","Z">>
LowerCase == <<"a","b","c","d","e","f","g","h","i","j","k","l","m",
               "n","o","p","q","r","s","t","u","v","w","x","y","z">>

ToLower ==
    [c \in {UpperCase[i] : i \in DOMAIN UpperCase} |->
        LowerCase[CHOOSE i \in DOMAIN UpperCase : UpperCase[i] = c]]

\* one character under re.IGNORECASE
lower(c) == IF c \in DOMAIN ToLower THEN ToLower[c] ELSE c

\* bool(x) of a flag cell
Truthy(v) == v # 0

\* numpy's round(2) of a rating in thousandths: to the nearest hundredth,
\* a tie to the even one
Round2(x) ==
    LET r == x % 10
        base == x - r
    IN  IF r < 5 THEN base
        ELSE IF r > 5 THEN base + 10
        ELSE IF (base \div 10) % 2 = 0 THEN base ELSE base + 10

---------------------------------------------------------------------------
(* The recipe table *)

\* the options of the 'Dietary Restrictions' multiselect
RestrictionOptions == {"Vegetarian", "Vegan", "Gluten-Free", "Peanut-Free"}

\* the dietary flag columns the CSV file of the model has: it lacks the
\* columns of two of the options
FlagColumns == {"Vegetarian", "Vegan"}

Breakfast == <<"B","r","e","a","k","f","a","s","t">>
Lunch == <<"L","u","n","c","h">>
Dinner == <<"D","i","n","n","e","r">>
Dessert == <<"D","e","s","s","e","r","t">>
ANY == <<"A","n","y">>
HotDINNER == <<"h","o","t"," ","D","I","N","N","E","R">>
LunchOrDinner == <<"l","u","n","c","h","/","d","i","n","n","e","r">>

Recipe(title, rating, meal_type, calories, vegetarian, vegan) ==
    [title |-> title, rating |-> rating, meal_type |-> meal_type,
     calories |-> calories,
     flags |-> [c \in FlagColumns |-> IF c = "Vegetarian" THEN vegetarian ELSE vegan]]

\* the recipes a file may hold: ratings and calories on, inside and outside
\* the slider positions, meal types equal to an option, containing one in
\* another case and missing, and every combination of the two flags
Recipes ==
    { Recipe("A", 4500, Str(Breakfast), 300, 1, 1),
      Recipe("B", 2000, Str(Dinner), 700, 0, 0),
      Recipe("C", 3000, Str(HotDINNER), 1000, 1, 0),
      Recipe("D", 5000, None, 0, 0, 1),
      Recipe("E", 4125, Str(LunchOrDinner), 350, 1, 1) }

\* the sequences over S of length at most n
SeqUpTo(S, n) == UNION { [1..k -> S] : k \in 0..n }

\* the contents a CSV file may have (a header and at most MaxRows lines)
Files == SeqUpTo(Recipes, MaxRows)

File(rows) == [exists |-> TRUE, rows |-> rows]
Missing == [exists |-> FALSE, rows |-> <<>>]

\* pd.read_csv: the rows in file order under a RangeIndex 0..n-1
read_csv(file) ==
    [i \in DOMAIN file |->
        [index |-> i - 1, title |-> file[i].title, rating |-> file[i].rating,
         meal_type |-> file[i].meal_type, calories |-> file[i].calories,
         flags |-> file[i].flags]]

\* DataFrame.empty
empty(t) == Len(t) = 0

---------------------------------------------------------------------------
(* filter_recipes *)

\* what a call did: it returned a table, or it raised
Returned(rows) == [status |-> "returned", exc |-> "", names |-> {}, rows |-> rows]
Raised(exc, names) == [status |-> "raised", exc |-> exc, names |-> names, rows |-> <<>>]
NoResult == [status |-> "none", exc |-> "", names |-> {}, rows |-> <<>>]

\* the columns of a table of the model
columns(t) == FlagColumns

\* df[mask][::-1]: the kept rows, last first
BooleanIndexReversed(t, mask) ==
    LET keep == {i \in DOMAIN t : mask[i]}
        at(k) == CHOOSE i \in keep : Cardinality({j \in keep : j > i}) = k - 1
    IN  [k \in 1..Cardinality(keep) |-> t[at(k)]]

\* df[mask].iloc[1:]: the kept rows but the first
BooleanIndexTail(t, mask) ==
    LET keep == {i \in DOMAIN t : mask[i]}
        at(k) == CHOOSE i \in keep : Cardinality({j \in keep : j < i}) = k
    IN  [k \in 1..(Cardinality(keep) - 1) |-> t[at(k)]]

\* df[mask]: the rows whose mask entry is true, in the table's order, each
\* under its own index label
BooleanIndex(t, mask) ==
    LET keep == {i \in DOMAIN t : mask[i]}
        at(k) == CHOOSE i \in keep : Cardinality({j \in keep : j < i}) = k - 1
    IN  [k \in 1..Cardinality(keep) |-> t[at(k)]]

\* one entry of df[names].any(axis=1)
any_axis1(row, names) == \E n \in names : Truthy(row.flags[n])

\* one entry of df[names].all(axis=1)
all_axis1(row, names) == \A n \in names : Truthy(row.flags[n])

\* one entry of Series.str.contains(pat, na=False): the case counts
str_contains_case(cell, pat) ==
    IF cell.isna THEN FALSE
    ELSE \E i \in 0..(Len(cell.s) - Len(pat)) :
            \A j \in 1..Len(pat) : cell.s[i + j] = pat[j]

\* one entry of Series.str.contains(pat, case=False, na=True)
str_contains_na(cell, pat) ==
    IF cell.isna THEN TRUE
    ELSE \E i \in 0..(Len(cell.s) - Len(pat)) :
            \A j \in 1..Len(pat) : lower(cell.s[i + j]) = lower(pat[j])

\* one entry of Series.str.contains(pat, case=False, na=False), for a
\* pattern of letters (which a regular expression matches literally)
str_contains(cell, pat) ==
    IF cell.isna THEN FALSE
    ELSE \E i \in 0..(Len(cell.s) - Len(pat)) :
            \A j \in 1..Len(pat) : lower(cell.s[i + j]) = lower(pat[j])

\* (x > range[0]) & (x < range[1])
between_exclusive(x, range) == x > range[1] /\ x < range[2]

\* (x >= range[0]) & (x <= range[1])
between(x, range) == x >= range[1] /\ x <= range[2]

filter_recipes(t, dietary_restrictions, meal_type, rating_range, calories_range) ==
    IF empty(t) THEN Returned(t)
    ELSE IF dietary_restrictions # {} /\ ~(dietary_restrictions \subseteq columns(t))
    THEN Raised("KeyError", dietary_restrictions \ columns(t))
    ELSE
        LET f1 == IF dietary_restrictions # {}
                  THEN BooleanIndex(t,
                         [i \in DOMAIN t |-> all_axis1(t[i], dietary_restrictions)])
                  ELSE t
            f2 == IF ~meal_type.isna /\ meal_type.s # <<>> /\ meal_type.s # ANY
                  THEN BooleanIndex(f1,
                         [i \in DOMAIN f1 |-> str_contains(f1[i].meal_type, meal_type.s)])
                  ELSE f1
            f3 == IF calories_range # <<>>
                  THEN BooleanIndex(f2,
                         [i \in DOMAIN f2 |-> between(f2[i].calories, calories_range)])
                  ELSE f2
            f4 == IF rating_range # <<>>
                  THEN BooleanIndex(f3,
                         [i \in DOMAIN f3 |-> between(f3[i].rating, rating_range)])
                  ELSE f3
        IN  Returned(f4)

---------------------------------------------------------------------------
(* Direct calls of filter_recipes *)

\* the restriction lists a direct caller may pass: the names of the table's
\* flag columns and one name the table has no column for
RestrictionArguments ==
    {S \in SUBSET (FlagColumns \cup {"Keto"}) : Cardinality(S) <= MaxSelected}

\* the options of the 'Select meal type' selectbox
MealOptions == {ANY, Breakfast, Lunch, Dinner, Dessert}

\* positions of the 'Rating Range' slider (0.0 to 5.0 in steps of 0.5); the
\* first is its default
RatingSlider == {<<3000, 5000>>, <<2000, 3000>>, <<3500, 4500>>}

\* positions of the 'Calories Range' slider (0 to 1000 in steps of 50); the
\* first is its default
CaloriesSlider == {<<0, 1000>>, <<350, 700>>}

\* the meal types a direct caller may pass: None, '', 'Any' and two options
MealArguments == {None, Str(<<>>), Str(ANY), Str(Dinner), Str(Lunch)}

NoCriteria ==
    [dietary_restrictions |-> {}, meal_type |-> None,
     rating_range |-> <<>>, calories_range |-> <<>>]

\* filter_recipes(df, ...) on the table
Call(dietary_restrictions, meal_type, rating_range, calories_range) ==
    /\ pc = "table"
    /\ criteria' = [dietary_restrictions |-> dietary_restrictions,
                    meal_type |-> meal_type,
                    rating_range |-> rating_range,
                    calories_range |-> calories_range]
    /\ result' = filter_recipes(df, dietary_restrictions, meal_type,
                                rating_range, calories_range)
    /\ again' = NoResult
    /\ pc' = "called"
    /\ UNCHANGED <<csv, cache, df, recipe_df, rendered, calls>>

\* filter_recipes(filter_recipes(df, ...), ...): the same criteria on the result
CallAgain ==
    /\ pc = "called"
    /\ result.status = "returned"
    /\ again' = filter_recipes(result.rows, criteria.dietary_restrictions,
                               criteria.meal_type, criteria.rating_range,
                               criteria.calories_range)
    /\ pc' = "recalled"
    /\ UNCHANGED <<csv, cache, df, criteria, result, recipe_df, rendered, calls>>

FilterInit ==
    /\ df \in {read_csv(f) : f \in Files}
    /\ csv = Missing
    /\ cache = [hit |-> FALSE, value |-> <<>>]
    /\ criteria = NoCriteria
    /\ result = NoResult
    /\ again = NoResult
    /\ recipe_df = <<>>
    /\ rendered = {}
    /\ calls = {}
    /\ pc = "table"

FilterNext ==
    \/ \E d \in RestrictionArguments, m \in MealArguments,
          r \in RatingSlider \cup {<<>>}, c \in CaloriesSlider \cup {<<>>} :
          Call(d, m, r, c)
    \/ CallAgain

FilterSpec == FilterInit /\ [][FilterNext]_vars

---------------------------------------------------------------------------
(* The Streamlit script: load_data and main *)

\* the restriction lists the multiselect can give
Selections == {S \in SUBSET RestrictionOptions : Cardinality(S) <= MaxSelected}

\* load_data() under st.cache_data: the memoised table on a hit; else the
\* file's table, or an empty DataFrame when the file is not found
load_data(file, memo) ==
    IF memo.hit THEN memo.value
    ELSE IF file.exists THEN read_csv(file.rows)
    ELSE <<>>

\* the st.error of load_data: shown when its body runs and finds no file,
\* and on a cache hit when st.cache_data replays the elements of the
\* memoised call (which depends on the Streamlit release)
load_error(file, memo, replays) ==
    IF ~file.exists /\ (~memo.hit \/ replays)
    THEN {"error: CSV file not found"}
    ELSE {}

\* the script without its st.stop()
never_halts(t) == FALSE

\* `if df.empty: st.stop()`
halts(t) == empty(t)

\* the script without the test of filtered_df.empty
always_results(filtered_df) == TRUE

\* `if not filtered_df.empty:`
has_results(filtered_df) == ~empty(filtered_df)

\* df['rating'] = df['rating'].round(2) ahead of the projection: the loaded
\* table takes the rounding
results_table_in_place(t, filtered_df) ==
    [df |-> [i \in DOMAIN t |-> [t[i] EXCEPT !.rating = Round2(@)]],
     filtered_df |-> filtered_df,
     recipe_df |-> [i \in DOMAIN filtered_df |->
                      [title |-> filtered_df[i].title,
                       rating |-> Round2(filtered_df[i].rating),
                       meal_type |-> filtered_df[i].meal_type,
                       calories |-> filtered_df[i].calories]]]

\* recipe_df = filtered_df[['title','rating','meal_type','calories']].copy()
\* recipe_df['rating'] = recipe_df['rating'].round(2)
\* The copy takes the rounding; df and filtered_df are left as they were.
results_table(t, filtered_df) ==
    [df |-> t,
     filtered_df |-> filtered_df,
     recipe_df |-> [i \in DOMAIN filtered_df |->
                      [title |-> filtered_df[i].title,
                       rating |-> Round2(filtered_df[i].rating),
                       meal_type |-> filtered_df[i].meal_type,
                       calories |-> filtered_df[i].calories]]]

\* a call of one of the script's functions on a table
CallOf(fn, t) == [fn |-> fn, rows |-> Len(t)]

\* the three charts drawn from filtered_df
plots(filtered_df) ==
    {CallOf("plot_meal_distribution", filtered_df),
     CallOf("plot_rating_distribution", filtered_df),
     CallOf("plot_nutrition_comparison", filtered_df)}

Header == {"header", "sidebar"}

\* one run of the script main(), from its first line to its last (or to
\* st.stop(), or to the exception that ends it), with the widget values of
\* this run
main(submit_button, dietary_restrictions, meal_type, rating_range, calories_range) ==
    LET loaded == load_data(csv, cache)
        res == filter_recipes(loaded, dietary_restrictions, Str(meal_type),
                              rating_range, calories_range)
        shown == results_table(loaded, res.rows)
    IN
    /\ pc \in {"start", "stopped", "idle", "exception", "results", "no matches"}
    /\ cache' = [hit |-> TRUE, value |-> loaded]
    /\ UNCHANGED <<csv, criteria, again>>
    /\ IF halts(loaded) THEN
            /\ pc' = "stopped"
            /\ df' = loaded
            /\ rendered' \in {Header \cup load_error(csv, cache, replays) :
                                 replays \in BOOLEAN}
            /\ calls' = {}
            /\ result' = NoResult
            /\ recipe_df' = <<>>
       ELSE IF ~submit_button THEN
            /\ pc' = "idle"
            /\ df' = loaded
            /\ rendered' = Header
            /\ calls' = {}
            /\ result' = NoResult
            /\ recipe_df' = <<>>
       ELSE IF res.status = "raised" THEN
            /\ pc' = "exception"
            /\ df' = loaded
            /\ rendered' = Header \cup {"exception: " \o res.exc}
            /\ calls' = {CallOf("filter_recipes", loaded)}
            /\ result' = res
            /\ recipe_df' = <<>>
       ELSE IF has_results(res.rows) THEN
            /\ pc' = "results"
            /\ df' = shown.df
            /\ rendered' = Header \cup {"success: Found matching recipes",
                                        "dataframe", "metric", "plotly_chart"}
            /\ calls' = {CallOf("filter_recipes", loaded)} \cup plots(shown.filtered_df)
            /\ result' = Returned(shown.filtered_df)
            /\ recipe_df' = shown.recipe_df
       ELSE
            /\ pc' = "no matches"
            /\ df' = loaded
            /\ rendered' = Header \cup {"error: No recipes found"}
            /\ calls' = {CallOf("filter_recipes", loaded)}
            /\ result' = res
            /\ recipe_df' = <<>>

Init ==
    /\ csv \in {Missing} \cup {File(f) : f \in Files}
    /\ cache = [hit |-> FALSE, value |-> <<>>]
    /\ df = <<>>
    /\ criteria = NoCriteria
    /\ result = NoResult
    /\ again = NoResult
    /\ recipe_df = <<>>
    /\ rendered = {}
    /\ calls = {}
    /\ pc = "start"

\* a rerun of the script: with 'Find Recipes' pressed and the widgets at any
\* of their values, or by another interaction, the button not pressed
Next ==
    \/ \E d \in Selections, m \in MealOptions,
          r \in RatingSlider, c \in CaloriesSlider :
          main(TRUE, d, m, r, c)
    \/ main(FALSE, {}, ANY, <<3000, 5000>>, <<0, 1000>>)

Spec == Init /\ [][Next]_vars

---------------------------------------------------------------------------
(* The predicate classes, as the specification words them *)

Fold(x) == [i \in DOMAIN x |-> lower(x[i])]

\* p is a substring of x, the case of the letters put aside
IsSubstringIgnoringCase(p, x) ==
    \E a \in 1..(Len(x) - Len(p) + 1) : Fold(SubSeq(x, a, a + Len(p) - 1)) = Fold(p)

DietaryPasses(row, c) == \A n \in c.dietary_restrictions : row.flags[n] # 0

MealSkipped(c) == c.meal_type.isna \/ c.meal_type.s = <<>> \/ c.meal_type.s = ANY

MealPasses(row, c) ==
    \/ MealSkipped(c)
    \/ /\ ~row.meal_type.isna
       /\ IsSubstringIgnoringCase(c.meal_type.s, row.meal_type.s)

RatingPasses(row, c) ==
    \/ c.rating_range = <<>>
    \/ c.rating_range[1] <= row.rating /\ row.rating <= c.rating_range[2]

CaloriesPasses(row, c) ==
    \/ c.calories_range = <<>>
    \/ c.calories_range[1] <= row.calories /\ row.calories <= c.calories_range[2]

Matches(row, c) ==
    /\ DietaryPasses(row, c)
    /\ MealPasses(row, c)
    /\ RatingPasses(row, c)
    /\ CaloriesPasses(row, c)

\* filter_recipes has been called on df with criteria
Called == pc \in {"called", "recalled"}

\* every restriction name of the criteria is a column of the table
KnownRestrictions == criteria.dietary_restrictions \subseteq FlagColumns

\* how often a row is in the result
Occurrences(row) == Cardinality({i \in DOMAIN result.rows : result.rows[i] = row})

AllActive ==
    /\ criteria.dietary_restrictions # {}
    /\ ~MealSkipped(criteria)
    /\ criteria.rating_range # <<>>
    /\ criteria.calories_range # <<>>

---------------------------------------------------------------------------
(* Claims about filter_recipes, checked under FilterSpec *)

\* C1: when every restriction name is a column of the table, every row of
\* filter_recipes(T, C) passes each of the four predicate classes, and no
\* row of T failing one of them is in the output.
C1_EveryOutputRowPasses ==
    (Called /\ KnownRestrictions) =>
        /\ \A i \in DOMAIN result.rows : Matches(result.rows[i], criteria)
        /\ \A j \in DOMAIN df : ~Matches(df[j], criteria) => Occurrences(df[j]) = 0

\* a call with all four predicates active that keeps one row and drops another
C1_Witness ==
    /\ Called /\ KnownRestrictions /\ AllActive
    /\ Cardinality(criteria.dietary_restrictions) = 2
    /\ Len(df) = 2 /\ Len(result.rows) = 1

\* C2: when every restriction name is a column of the table, the call
\* returns, its rows are rows of T, and every row of T that passes all four
\* predicate classes is in the output exactly once.
C2_EveryMatchingRowOnce ==
    (Called /\ KnownRestrictions) =>
        /\ result.status = "returned"
        /\ \A i \in DOMAIN result.rows : \E j \in DOMAIN df : df[j] = result.rows[i]
        /\ \A j \in DOMAIN df : Matches(df[j], criteria) => Occurrences(df[j]) = 1

\* the same recipe twice in the file, both lines matching a meal type in
\* another case than the requested one
C2_Witness ==
    /\ Called /\ KnownRestrictions
    /\ Len(df) = 2 /\ df[1].title = df[2].title
    /\ criteria.meal_type = Str(Dinner) /\ df[1].meal_type = Str(HotDINNER)
    /\ Len(result.rows) = 2

\* C3 (as claimed): a restriction name that is no column of T, for T empty
\* or not, yields an UnknownRestriction outcome naming it, returned and not
\* raised, and never a row sequence.
C3_UnknownRestrictionIsReturned ==
    (Called /\ ~KnownRestrictions) =>
        /\ result.status = "returned"
        /\ result.exc = "UnknownRestriction"
        /\ result.names = criteria.dietary_restrictions \ FlagColumns

\* C5: a row whose rating equals the minimum or the maximum of the rating
\* range, or whose calories equal the minimum or the maximum of the calorie
\* range, and that passes the other predicates, is in the output.
C5_BoundsInclusive ==
    (Called /\ KnownRestrictions) =>
        \A j \in DOMAIN df :
            /\ ( /\ criteria.rating_range # <<>>
                 /\ df[j].rating \in {criteria.rating_range[1], criteria.rating_range[2]}
                 /\ DietaryPasses(df[j], criteria)
                 /\ MealPasses(df[j], criteria)
                 /\ CaloriesPasses(df[j], criteria) ) => Occurrences(df[j]) = 1
            /\ ( /\ criteria.calories_range # <<>>
                 /\ df[j].calories \in {criteria.calories_range[1], criteria.calories_range[2]}
                 /\ DietaryPasses(df[j], criteria)
                 /\ MealPasses(df[j], criteria)
                 /\ RatingPasses(df[j], criteria) ) => Occurrences(df[j]) = 1

\* a result holding a row on the maximum of the rating range and on the
\* minimum of the calorie range, and a row on the minimum of the rating range
\* and on the maximum of the calorie range
C5_Witness ==
    /\ Called /\ KnownRestrictions
    /\ criteria.rating_range # <<>> /\ criteria.calories_range # <<>>
    /\ Len(result.rows) = 2
    /\ result.rows[1].rating = criteria.rating_range[2]
    /\ result.rows[1].calories = criteria.calories_range[1]
    /\ result.rows[2].rating = criteria.rating_range[1]
    /\ result.rows[2].calories = criteria.calories_range[2]

\* C6: any two rows of filter_recipes(T, C) stand in the order they have in T.
C6_OrderPreserved ==
    Called =>
        \A a, b \in DOMAIN result.rows :
            a < b => \E i, j \in DOMAIN df :
                        i < j /\ df[i] = result.rows[a] /\ df[j] = result.rows[b]

\* two rows kept by a call that filters on every predicate class
C6_Witness ==
    /\ Called /\ KnownRestrictions /\ AllActive
    /\ Len(result.rows) = 2
    /\ result.rows[1].title # result.rows[2].title

\* C7: when filter_recipes(T, C) returns, filter_recipes of its result under
\* the same C returns the same table, the empty one included.
C7_Idempotent == pc = "recalled" => again = result

\* the second call made on a result that is a proper, non-empty part of T
C7_Witness ==
    /\ pc = "recalled"
    /\ Len(result.rows) = 1 /\ Len(df) = 2
    /\ again.status = "returned"

---------------------------------------------------------------------------
(* Claims about the script, checked under Spec *)

\* what read_csv made of the file when load_data first ran
Loaded == IF csv.exists THEN read_csv(csv.rows) ELSE <<>>

PlotCalls == {c \in calls : c.fn # "filter_recipes"}

ResultElements == {"success: Found matching recipes", "dataframe", "metric", "plotly_chart"}

\* C4: with the file missing, every run of the script stops after
\* load_data: filter_recipes and the plot functions are not called and no
\* table, metric or chart is rendered; the run in which load_data finds no
\* file shows the 'CSV file not found' error.
C4_MissingFileHalts ==
    /\ []( (~csv.exists /\ pc # "start") =>
              /\ pc = "stopped"
              /\ calls = {}
              /\ rendered \cap ResultElements = {}
              /\ result = NoResult /\ recipe_df = <<>> )
    /\ [][ (~csv.exists /\ ~cache.hit) => "error: CSV file not found" \in rendered' ]_vars

\* a run stopped on a missing file, the error on the page
C4_Witness ==
    /\ ~csv.exists /\ pc = "stopped" /\ cache.hit
    /\ "error: CSV file not found" \in rendered

\* C8: after any sequence of runs the loaded table, main's df and the
\* memoised one, has the rows read from the file, in their order and with
\* their values; the result of filter_recipes holds rows of it unaltered.
C8_TableImmutable ==
    pc # "start" =>
        /\ df = Loaded
        /\ cache.value = Loaded
        /\ \A i \in DOMAIN result.rows : \E j \in DOMAIN df : df[j] = result.rows[i]

\* a result table whose displayed rating was rounded away from the stored one
C8_Witness ==
    /\ pc = "results"
    /\ \E i \in DOMAIN recipe_df : recipe_df[i].rating # result.rows[i].rating

\* C10: the plot functions are called only on a filtered result of at least
\* one row; a filter that returns no row is rendered as the 'No recipes
\* found' message alone, with no plot call; that page is neither the one of a
\* missing file nor the one of an unknown restriction.
C10_PlotsOnlyOnRows ==
    /\ \A c \in PlotCalls :
          /\ result.status = "returned"
          /\ c.rows = Len(result.rows)
          /\ c.rows >= 1
    /\ (result.status = "returned" /\ result.rows = <<>>) =>
          /\ pc = "no matches"
          /\ "error: No recipes found" \in rendered
          /\ PlotCalls = {}
          /\ rendered \cap ResultElements = {}
    /\ "error: No recipes found" \in rendered =>
          /\ "error: CSV file not found" \notin rendered
          /\ "exception: KeyError" \notin rendered
          /\ pc \notin {"stopped", "exception"}
    /\ pc = "stopped" => "error: No recipes found" \notin rendered
    /\ pc = "exception" =>
          /\ "exception: KeyError" \in rendered
          /\ "error: No recipes found" \notin rendered
          /\ PlotCalls = {}

\* a submission whose filter returned no row of a non-empty table
C10_Witness ==
    /\ pc = "no matches"
    /\ Len(df) >= 1
    /\ result.status = "returned" /\ result.rows = <<>>
    /\ CallOf("filter_recipes", df) \in calls

============================================================================
